---- MODULE Spec2Model ----
(***************************************************************************)
(* Multi-start acquisition optimisation of the Bayesian-optimisation       *)
(* seminar notebook (sem4-GP/2_BayesOpt.ipynb): get_new_point, called      *)
(* find_next_point in the specification.                                   *)
(*                                                                         *)
(* Real-valued quantities are carried on a small integer grid: a point is  *)
(* a tuple of grid coordinates, predictions and criterion values are       *)
(* integers.  The surrogate model (GPy), the random source (numpy) and the *)
(* bounded local optimiser (scipy L-BFGS-B) are libraries; they are        *)
(* modelled by what the notebook relies on, as deterministic functions of  *)
(* their arguments.  The two places the notebook leaves for the student    *)
(* (the draw of x_random and the loop over the starts) are modelled from   *)
(* the specification and from the notebook's own comments.                 *)
(***************************************************************************)
EXTENDS Integers, Sequences, FiniteSets, TLC

\* ------------------------------------------------------------------ bounds
\* Largest value of the multistart argument that is explored.
MaxStarts == 2
\* Iteration budgets of the local optimiser that are explored (0: it may only
\* confirm that the start is already a local minimum).
MaxIters == {0, 2}
\* Axes of the search space and the grid coordinates along each of them.
Axes == {1, 2}
Dim == Cardinality(Axes)
Coord == {0, 1}
Points == [Axes -> Coord]
\* Values the surrogate may predict at a point.
Means == {0, 1}
Variances == {0, 1}
\* Variance tables that are explored: those that change along the first axis only.
VarianceTables ==
    {v \in [Points -> Variances] : \A p, q \in Points : p[1] = q[1] => v[p] = v[q]}
\* Observed y_train columns that are explored (the empty one included).
Ys == {<< >>, <<1, 0>>}
\* Seeds of a numpy RandomState and the resolution of one uniform draw.
Seeds == {1, 2}
\* Seeds of the RandomState objects a caller passes in.
GivenSeeds == {1}
Res == 2
\* Values a module-level name `params` may be bound to, when it is bound.
ParamValues == {2}
\* Values of the k argument.
Ks == {1, 2}
\* Criterion names a caller may pass.
Criteria == {"ei", "lcb", "bogus"}

\* np.inf, as an integer above every criterion value of the model.
Inf == 99

\* ------------------------------------------------------------ Python values
\* None for an optional dataset, an optional random state, an unbound name.
NoData == [some |-> FALSE, y |-> << >>]
NoRandomState == [some |-> FALSE, seed |-> 0]
Unbound == [bound |-> FALSE, value |-> 0]
\* best_result = None
NoResult == [some |-> FALSE, x |-> << >>, fun |-> 0]
\* The local optimiser failed for a start: no (x, fun) is produced.
Failed == [ok |-> FALSE, x |-> << >>, fun |-> 0]

Datasets == {NoData} \cup {[some |-> TRUE, y |-> ys] : ys \in Ys}
RandomStates == {NoRandomState} \cup {[some |-> TRUE, seed |-> s] : s \in GivenSeeds}
ParamBindings == {Unbound} \cup {[bound |-> TRUE, value |-> v] : v \in ParamValues}

VARIABLES
    \* the surrogate model and the environment of the call
    mean,           \* model.predict(x)[0] at every grid point
    variance,       \* model.predict(x)[1] at every grid point
    maxiter,        \* iteration budget of the local optimiser
    params,         \* binding of the free name `params` read by objective
    \* the arguments of get_new_point
    lb, ub, data, multistart, criterion, k, random_state,
    \* the locals of get_new_point
    pc,             \* position in the body
    rng,            \* the RandomState in use: its seed and stream position
    lb2, ub2,       \* lb, ub after reshape(1, -1)
    x_random,       \* the start points, one row per start
    criterion_value,\* objective(x_random)
    i,              \* index of the next start of the loop
    best_result, best_value,
    \* what the call produced
    err,            \* the exception that ended the call, "" if none
    result,         \* the returned (x, fun)
    \* observation of the run (not read by the program)
    runs,           \* outcome of every local-optimiser run, in order
    call,           \* 1 for the first call, 2 for a repeated one
    prev,           \* the first call's outcome, kept for a repeated call
    \* the schedule of the local-optimiser runs when they are not run in turn
    running,        \* indices of the starts whose run has begun
    order,          \* indices of the starts whose run has ended, in that order
    \* the loop that calls optimization_step
    hyperparameters,\* the points evaluated so far, one row each
    errors,         \* the objective values at them, one row each
    gp_model,       \* the model the last step returned
    objective_fn,   \* the objective: its value at every grid point
    plot,           \* the plot argument of optimization_step
    error_history,
    n_init_points,  \* number of rows the loop started with
    iterations,     \* completed iterations of the loop
    \* the locals of optimization_step
    spc,            \* position in the loop and in the body of the step
    x_train, y_train, model, x_new,
    events,         \* what the running step did so far, in order (not read)
    \* the caption encoding: as_matrix and to_string
    vocab,          \* the vocabulary list, in the order list(set(...)) gave it
    sequences,      \* the sequences argument of as_matrix
    max_len,        \* the max_len argument of as_matrix
    matrix,         \* what as_matrix returned
    row,            \* number of the row handed to to_string, 0 before
    text,           \* what to_string returned, as the pieces it joined
    tpc             \* "none", "start", "encoded" or "decoded"

env == <<mean, variance, maxiter, params>>
args == <<lb, ub, data, multistart, criterion, k, random_state>>
locals == <<pc, rng, lb2, ub2, x_random, criterion_value, i, best_result, best_value>>
sched == <<running, order>>
loop == <<hyperparameters, errors, gp_model, objective_fn, plot, error_history,
          n_init_points, iterations>>
step_locals == <<x_train, y_train, model, x_new, events>>
step == <<spc, step_locals>>
encoding == <<vocab, sequences, max_len, matrix, row, text, tpc>>
outer == <<sched, loop, step, encoding>>
vars == <<env, args, locals, err, result, runs, call, prev, outer>>

\* ------------------------------------------------------------ numpy helpers
\* np.array(v).reshape(1, -1): a vector becomes a matrix of one row.
Reshape1(v) == <<v>>

\* np.vstack((a, b)) of two matrices: the rows of a, then the rows of b.
VStack(a, b) == a \o b

\* m.T
Transpose(m) == [c \in 1..Len(m[1]) |-> [r \in 1..Len(m) |-> m[r][c]]]

\* y.min() of a non-empty column.
RECURSIVE MinOf(_)
MinOf(ys) ==
    IF Len(ys) = 1 THEN ys[1]
    ELSE LET m == MinOf(Tail(ys)) IN IF ys[1] < m THEN ys[1] ELSE m

\* np.sqrt of a variance that is a perfect square.
Sqrt(v) == CHOOSE s \in 0..v : s * s = v

\* The j-th uniform number (j = 0, 1, ...) of RandomState(seed), in units of
\* 1/Res: a fixed function of the seed and of the position in the stream.
Stream(seed, j) == (seed * (j + 1) + (j \div 2)) % Res

\* lower + (upper - lower) * u/Res, rounded to the nearest grid coordinate.
Scale(lower, upper, u) == lower + ((2 * (upper - lower) * u + Res) \div (2 * Res))

\* ------------------------------------------------------ acquisition criteria
\* log_expected_improvement(mean, std, y_min): an integer stand-in that, like
\* log EI, grows with the predicted improvement y_min - mean and with std.
LogEI(m, s, ymin) == (ymin - m) + s

\* lcb(mean, std, coefficient) = mean - coefficient * std
Lcb(m, s, coefficient) == m - coefficient * s

\* objective with the else branch missing: an unknown name is treated as lcb.
ObjectiveErrorNoElse ==
    IF criterion = "ei" THEN
        IF ~data.some THEN "TypeError"
        ELSE IF Len(data.y) = 0 THEN "ValueError"
        ELSE ""
    ELSE ""

\* objective with the two criterion branches exchanged.
ObjectiveErrorSwapped ==
    IF criterion = "lcb" THEN
        IF ~data.some THEN "TypeError"
        ELSE IF Len(data.y) = 0 THEN "ValueError"
        ELSE ""
    ELSE IF criterion = "ei" THEN
        IF ~params.bound THEN "NameError"
        ELSE ""
    ELSE "NotImplementedError"

\* The exception objective(x) raises, "" when it returns.  The dispatch on
\* criterion comes after model.predict and np.sqrt, which do not fail.
ObjectiveError ==
    IF criterion = "ei" THEN
        IF ~data.some THEN "TypeError"            \* data[1] with data = None
        ELSE IF Len(data.y) = 0 THEN "ValueError" \* min() of an empty array
        ELSE ""
    ELSE IF criterion = "lcb" THEN
        IF ~params.bound THEN "NameError"         \* the free name params
        ELSE ""
    ELSE "NotImplementedError"

\* objective with the sign of the 'ei' branch lost: log EI itself is returned.
ObjectiveNotNegated(x) ==
    [r \in 1..Len(x) |->
        LET mean_value == mean[x[r]]
            std_value  == Sqrt(variance[x[r]])
        IN  IF criterion = "ei"
            THEN LogEI(mean_value, std_value, MinOf(data.y))
            ELSE Lcb(mean_value, std_value, params.value)]

\* objective(x) for a matrix x of one point per row, when it returns.
Objective(x) ==
    [r \in 1..Len(x) |->
        LET mean_value == mean[x[r]]
            std_value  == Sqrt(variance[x[r]])
        IN  IF criterion = "ei"
            THEN -LogEI(mean_value, std_value, MinOf(data.y))
            ELSE Lcb(mean_value, std_value, params.value)]

\* objective(x) for a single point: x.ndim == 1, so x is reshaped to one row.
Objective1(x) == Objective(Reshape1(x))[1]

\* ------------------------------------------------------- the local optimiser
\* Order in which the optimiser prefers equally good neighbours.
RECURSIVE RankUpTo(_, _)
RankUpTo(p, d) == IF d = 0 THEN 0 ELSE RankUpTo(p, d - 1) * 10 + p[d]
Rank(p) == RankUpTo(p, Len(p))

InBox(p, bounds) == \A d \in 1..Len(p) : bounds[d][1] <= p[d] /\ p[d] <= bounds[d][2]

\* Projection of the start onto the box, as L-BFGS-B does before iterating.
Clip(p, bounds) ==
    [d \in 1..Len(p) |->
        IF p[d] < bounds[d][1] THEN bounds[d][1]
        ELSE IF p[d] > bounds[d][2] THEN bounds[d][2] ELSE p[d]]

\* The points one grid step from p, inside the box, with a smaller objective.
Improving(p, bounds) ==
    {q \in {[p EXCEPT ![d] = p[d] + s] : d \in 1..Len(p), s \in {-1, 1}} :
        /\ InBox(q, bounds)
        /\ q \in Points
        /\ Objective1(q) < Objective1(p)}

BestOf(c) ==
    CHOOSE q \in c : \A z \in c :
        \/ Objective1(q) < Objective1(z)
        \/ Objective1(q) = Objective1(z) /\ Rank(q) <= Rank(z)

\* Descent from p with n iterations left: the local minimum it reaches, or
\* Failed when the budget runs out first.
RECURSIVE Descend(_, _, _)
Descend(p, bounds, n) ==
    IF Improving(p, bounds) = {} THEN [ok |-> TRUE, x |-> p, fun |-> Objective1(p)]
    ELSE IF n = 0 THEN Failed
    ELSE Descend(BestOf(Improving(p, bounds)), bounds, n - 1)

\* minimize(objective, x_init, method='L-BFGS-B', bounds=bounds): bounds holds
\* one (lower, upper) pair per coordinate of x_init.
Minimize(x_init, bounds) ==
    IF Len(bounds) # Len(x_init) THEN Failed
    ELSE IF \E d \in 1..Len(bounds) : Len(bounds[d]) # 2 THEN Failed
    ELSE IF \E d \in 1..Len(bounds) : bounds[d][1] > bounds[d][2] THEN Failed
    ELSE Descend(Clip(x_init, bounds), bounds, maxiter)

\* The bounds stacked but not transposed: one row of lower bounds, one of upper.
BoundsArgNotTransposed == VStack(lb2, ub2)

\* bounds=np.vstack((lb, ub)).T
BoundsArg == Transpose(VStack(lb2, ub2))

\* --------------------------------------------------- outside of the call
\* A model not yet built.
NoModel == [some |-> FALSE, x |-> << >>, y |-> << >>]

\* max_len=None
NoMaxLen == [some |-> FALSE, value |-> 0]

\* No caption is being encoded.
NoEncoding ==
    /\ vocab = << >>
    /\ sequences = << >>
    /\ max_len = NoMaxLen
    /\ matrix = << >>
    /\ row = 0
    /\ text = << >>
    /\ tpc = "none"

\* get_new_point called on its own: no loop and no optimization_step around it.
NoLoop ==
    /\ hyperparameters = << >>
    /\ errors = << >>
    /\ gp_model = NoModel
    /\ objective_fn = << >>
    /\ plot = FALSE
    /\ error_history = << >>
    /\ n_init_points = 0
    /\ iterations = 0
    /\ spc = "none"
    /\ x_train = << >>
    /\ y_train = << >>
    /\ model = NoModel
    /\ x_new = << >>
    /\ events = << >>

\* ---------------------------------------------------------------- the call
Init ==
    /\ mean \in [Points -> Means]
    /\ variance \in VarianceTables
    /\ maxiter \in MaxIters
    /\ lb \in Points
    /\ ub \in Points
    /\ multistart \in 1..MaxStarts
    /\ criterion \in Criteria
    /\ random_state \in RandomStates
    \* arguments and names the chosen criterion never reads keep one value
    /\ data \in (IF criterion = "ei" THEN Datasets ELSE {NoData})
    /\ params \in (IF criterion = "lcb" THEN ParamBindings ELSE {Unbound})
    /\ k \in (IF params.bound THEN Ks ELSE {1})
    /\ pc = "start"
    /\ rng = [seed |-> 0, pos |-> 0]
    /\ lb2 = << >>
    /\ ub2 = << >>
    /\ x_random = << >>
    /\ criterion_value = << >>
    /\ i = 0
    /\ best_result = NoResult
    /\ best_value = 0
    /\ err = ""
    /\ result = NoResult
    /\ runs = << >>
    /\ call = 1
    /\ prev = [result |-> NoResult, err |-> "", multistart |-> 0]
    /\ running = {}
    /\ order = << >>
    /\ NoLoop
    /\ NoEncoding

\* Prepare without the test for None: a fresh RandomState replaces the caller's.
PrepareFresh ==
    /\ pc = "start"
    /\ \E s \in Seeds : rng' = [seed |-> s, pos |-> 0]
    /\ lb2' = Reshape1(lb)
    /\ ub2' = Reshape1(ub)
    /\ pc' = "draw"
    /\ UNCHANGED <<env, outer, args, x_random, criterion_value, i, best_result, best_value,
                   err, result, runs, call, prev>>

\* Prepare with a check of the bounds that ends the call before the draw.
PrepareChecked ==
    /\ pc = "start"
    /\ \E s \in Seeds :
        rng' = [seed |-> IF random_state.some THEN random_state.seed ELSE s,
                pos |-> 0]
    /\ lb2' = Reshape1(lb)
    /\ ub2' = Reshape1(ub)
    /\ IF \E d \in 1..Dim : lb[d] > ub[d]
       THEN pc' = "done" /\ err' = "ValueError"
       ELSE pc' = "draw" /\ UNCHANGED err
    /\ UNCHANGED <<env, outer, args, x_random, criterion_value, i, best_result, best_value,
                   result, runs, call, prev>>

\* if random_state is None: random_state = np.random.RandomState()
\* (seeded from the operating system's entropy: any seed);
\* lb = np.array(lb).reshape(1, -1); ub likewise.
Prepare ==
    /\ pc = "start"
    /\ \E s \in Seeds :
        rng' = [seed |-> IF random_state.some THEN random_state.seed ELSE s,
                pos |-> 0]
    /\ lb2' = Reshape1(lb)
    /\ ub2' = Reshape1(ub)
    /\ pc' = "draw"
    /\ UNCHANGED <<env, outer, args, x_random, criterion_value, i, best_result, best_value,
                   err, result, runs, call, prev>>

\* x_random: multistart points, each coordinate drawn uniformly between the
\* bounds, the stream of the random source used row by row.
DrawPoints(n) ==
    [r \in 1..n |->
        [d \in 1..Dim |->
            Scale(lb2[1][d], ub2[1][d], Stream(rng.seed, rng.pos + (r - 1) * Dim + (d - 1)))]]

Draw ==
    /\ pc = "draw"
    /\ x_random' = DrawPoints(multistart)
    /\ rng' = [rng EXCEPT !.pos = rng.pos + multistart * Dim]
    /\ pc' = "batch"
    /\ UNCHANGED <<env, outer, args, lb2, ub2, criterion_value, i, best_result, best_value,
                   err, result, runs, call, prev>>

\* criterion_value = objective(x_random)
Batch ==
    /\ pc = "batch"
    /\ IF ObjectiveError # ""
       THEN /\ err' = ObjectiveError
            /\ pc' = "done"
            /\ UNCHANGED criterion_value
       ELSE /\ criterion_value' = Objective(x_random)
            /\ pc' = "init_best"
            /\ UNCHANGED err
    /\ UNCHANGED <<env, outer, args, rng, lb2, ub2, x_random, i, best_result, best_value,
                   result, runs, call, prev>>

\* InitBest with best_value = 0 in place of np.inf.
InitBestZero ==
    /\ pc = "init_best"
    /\ best_result' = NoResult
    /\ best_value' = 0
    /\ i' = 1
    /\ pc' = "loop"
    /\ UNCHANGED <<env, outer, args, rng, lb2, ub2, x_random, criterion_value,
                   err, result, runs, call, prev>>

\* best_result = None; best_value = np.inf
InitBest ==
    /\ pc = "init_best"
    /\ best_result' = NoResult
    /\ best_value' = Inf
    /\ i' = 1
    /\ pc' = "loop"
    /\ UNCHANGED <<env, outer, args, rng, lb2, ub2, x_random, criterion_value,
                   err, result, runs, call, prev>>

\* Only the start with the smallest batched criterion value (the "choose k
\* points with smallest values of criterion" step of the seminar text, k = 1).
StartsTopOne ==
    LET best == CHOOSE j \in 1..Len(x_random) :
                    \A l \in 1..Len(x_random) :
                        \/ criterion_value[j] < criterion_value[l]
                        \/ criterion_value[j] = criterion_value[l] /\ j <= l
    IN  <<x_random[best]>>

\* The starts the local optimiser is run from: every row of x_random.
StartsToRun == x_random

\* A comparison that keeps the result of every run that succeeded.
ImprovesAlways(r, best) == r.ok

\* Improves with <= : a later run of equal value replaces an earlier one.
ImprovesOrEqual(r, best) == r.ok /\ r.fun <= best

\* Whether a run's outcome replaces the best one so far: a failed run never
\* does, a successful one does when its value is strictly smaller.
Improves(r, best) == r.ok /\ r.fun < best

\* One pass of the loop: the local optimiser is run from the i-th start and
\* its outcome is compared with the best so far.
RunStart ==
    /\ pc = "loop"
    /\ i <= Len(StartsToRun)
    /\ LET r == Minimize(StartsToRun[i], BoundsArg) IN
        /\ runs' = Append(runs, [start |-> StartsToRun[i], ok |-> r.ok,
                                  x |-> r.x, fun |-> r.fun])
        /\ IF Improves(r, best_value)
           THEN /\ best_result' = [some |-> TRUE, x |-> r.x, fun |-> r.fun]
                /\ best_value' = r.fun
           ELSE UNCHANGED <<best_result, best_value>>
    /\ i' = i + 1
    /\ UNCHANGED <<env, outer, args, pc, rng, lb2, ub2, x_random, criterion_value,
                   err, result, call, prev>>

\* A return of best_result itself: None comes back without an error.
ReturnValueNone == [err |-> "", result |-> best_result]

\* The value of the return statement: (best_result.x, best_result.fun), or the
\* AttributeError of reading .x of None.
ReturnValue ==
    IF best_result.some
    THEN [err |-> "", result |-> best_result]
    ELSE [err |-> "AttributeError", result |-> NoResult]

\* return best_result.x, best_result.fun
Return ==
    /\ pc = "loop"
    /\ i > Len(StartsToRun)
    /\ err' = ReturnValue.err
    /\ result' = ReturnValue.result
    /\ pc' = "done"
    /\ UNCHANGED <<env, outer, args, rng, lb2, ub2, x_random, criterion_value, i,
                   best_result, best_value, runs, call, prev>>

Next == Prepare \/ Draw \/ Batch \/ InitBest \/ RunStart \/ Return

Spec == Init /\ [][Next]_vars

\* ------------------------------------------------------- a repeated call
\* The caller calls get_new_point again with the same model, bounds, data,
\* criterion, k and random_state argument (a RandomState built from the same
\* seed, or None again), and with at least as many starts.
Repeat ==
    /\ pc = "done"
    /\ call = 1
    /\ prev' = [result |-> result, err |-> err, multistart |-> multistart]
    /\ call' = 2
    /\ \E n \in multistart..MaxStarts : multistart' = n
    /\ pc' = "start"
    /\ rng' = [seed |-> 0, pos |-> 0]
    /\ lb2' = << >>
    /\ ub2' = << >>
    /\ x_random' = << >>
    /\ criterion_value' = << >>
    /\ i' = 0
    /\ best_result' = NoResult
    /\ best_value' = 0
    /\ err' = ""
    /\ result' = NoResult
    /\ runs' = << >>
    /\ UNCHANGED <<env, outer, lb, ub, data, criterion, k, random_state>>

NextRepeat == Next \/ Repeat

SpecRepeat == Init /\ [][NextRepeat]_vars

\* ------------------------------------------- the runs in any order
\* The local-optimiser runs of one call, begun and ended in any order and
\* interleaving. A run reads the model, the bounds and its own start point;
\* when it ends its result is compared with the best so far, as in the loop.
Range(seq) == {seq[j] : j \in 1..Len(seq)}

BeginRun ==
    /\ pc = "loop"
    /\ \E j \in (1..Len(StartsToRun)) \ (running \cup Range(order)) :
        running' = running \cup {j}
    /\ UNCHANGED <<env, args, locals, err, result, runs, call, prev, order,
                   loop, step, encoding>>

EndRun ==
    /\ pc = "loop"
    /\ \E j \in running :
        LET r == Minimize(StartsToRun[j], BoundsArg) IN
        /\ runs' = Append(runs, [start |-> StartsToRun[j], ok |-> r.ok,
                                  x |-> r.x, fun |-> r.fun])
        /\ IF Improves(r, best_value)
           THEN /\ best_result' = [some |-> TRUE, x |-> r.x, fun |-> r.fun]
                /\ best_value' = r.fun
           ELSE UNCHANGED <<best_result, best_value>>
        /\ running' = running \ {j}
        /\ order' = Append(order, j)
    /\ i' = i + 1
    /\ UNCHANGED <<env, args, pc, rng, lb2, ub2, x_random, criterion_value,
                   err, result, call, prev, loop, step, encoding>>

NextAnyOrder == Prepare \/ Draw \/ Batch \/ InitBest \/ BeginRun \/ EndRun \/ Return

SpecAnyOrder == Init /\ [][NextAnyOrder]_vars

\* The best result of the runs taken in the order of the start points.
RECURSIVE SelectInOrder(_, _)
SelectInOrder(j, best) ==
    IF j > Len(StartsToRun)
    THEN best
    ELSE LET r == Minimize(StartsToRun[j], BoundsArg)
         IN  SelectInOrder(j + 1,
                 IF Improves(r, IF best.some THEN best.fun ELSE Inf)
                 THEN [some |-> TRUE, x |-> r.x, fun |-> r.fun]
                 ELSE best)

InOrder == SelectInOrder(1, NoResult)

\* ------------------------------------------- optimization_step and its loop
\* Largest number of rows the loop starts with, and of iterations it makes.
MaxInit == 2
MaxBudget == 2
\* multistart=10, the default get_new_point is called with by the step.
DefaultMultistart == 10
\* Values of the objective, and the objectives that are explored: those that
\* change along the first axis only.
ObjectiveValues == {0, 1}
Objectives ==
    {f \in [Points -> ObjectiveValues] : \A p, q \in Points : p[1] = q[1] => f[p] = f[q]}
\* Lower bounds passed by the loop; the upper bound is the grid's corner.
LowerBounds == {<<0, 0>>, <<0, 1>>}
UpperBounds == {<<1, 1>>}

\* np.random.seed(42)
InitialSeed == 42

\* initial_parameters = np.random.rand(n_init_points, len(lower_bound))
\*                      * (upper_bound - lower_bound) + lower_bound
InitialParameters(n, lower_bound, upper_bound) ==
    [r \in 1..n |->
        [d \in 1..Dim |->
            Scale(lower_bound[d], upper_bound[d],
                  Stream(InitialSeed, (r - 1) * Dim + (d - 1)))]]

\* Columns of n objective values.
ValueRows(n) == [1..n -> {<<v>> : v \in ObjectiveValues}]

\* The only column of a matrix of one column, as a vector.
Column(m) == [j \in 1..Len(m) |-> m[j][1]]

\* m[:n]
Rows(m, n) == SubSeq(m, 1, n)

\* The rows of x equal to the point p.
RowsAt(x, p) == {j \in 1..Len(x) : x[j] = p}

\* GPy.models.GPRegression(x, y, kernel) after optimize_restarts, as the
\* posterior of a noise-free process of zero prior mean and unit prior
\* variance whose kernel does not reach from one grid point to the next: the
\* prediction at an observed point is its (latest) observation with variance
\* 0, elsewhere the prior.
Max(S) == CHOOSE v \in S : \A w \in S : w <= v
PosteriorMean(x, y) ==
    [p \in Points |-> IF RowsAt(x, p) = {} THEN 0 ELSE y[Max(RowsAt(x, p))][1]]
PosteriorVariance(x) ==
    [p \in Points |-> IF RowsAt(x, p) = {} THEN 1 ELSE 0]

\* One entry of the record of what a step did.
Event(op, at) == [op |-> op, at |-> at]

\* error_history = [-initial_errors[:i].min() for i in range(1, n_init_points + 1)]
InitialHistory(initial_errors, n) ==
    [j \in 1..n |-> -MinOf(Column(Rows(initial_errors, j)))]

\* The state before the loop: initial points and errors, the objective, the
\* bounds; get_new_point is not running and no model was built.
InitLoop ==
    /\ lb \in LowerBounds
    /\ ub \in UpperBounds
    /\ n_init_points \in 1..MaxInit
    /\ hyperparameters = InitialParameters(n_init_points, lb, ub)
    /\ errors \in ValueRows(n_init_points)
    /\ error_history = InitialHistory(errors, n_init_points)
    /\ objective_fn \in Objectives
    /\ plot \in BOOLEAN
    /\ gp_model = NoModel
    /\ iterations = 0
    /\ spc = "loop"
    /\ x_train = << >>
    /\ y_train = << >>
    /\ model = NoModel
    /\ x_new = << >>
    /\ events = << >>
    \* the arguments the step passes on to get_new_point
    /\ criterion \in Criteria
    /\ k = 1
    /\ params \in (IF criterion = "lcb" THEN ParamBindings ELSE {Unbound})
    /\ maxiter \in MaxIters
    \* the prior, before any fit
    /\ mean = PosteriorMean(<< >>, << >>)
    /\ variance = PosteriorVariance(<< >>)
    \* get_new_point not called yet
    /\ data = NoData
    /\ multistart = DefaultMultistart
    /\ random_state = NoRandomState
    /\ pc = "none"
    /\ rng = [seed |-> 0, pos |-> 0]
    /\ lb2 = << >>
    /\ ub2 = << >>
    /\ x_random = << >>
    /\ criterion_value = << >>
    /\ i = 0
    /\ best_result = NoResult
    /\ best_value = 0
    /\ err = ""
    /\ result = NoResult
    /\ runs = << >>
    /\ call = 1
    /\ prev = [result |-> NoResult, err |-> "", multistart |-> 0]
    /\ running = {}
    /\ order = << >>
    /\ NoEncoding

\* for i in range(budget): ... = bayes_opt.optimization_step(hyperparameters,
\* errors, kernel, objective, lb=lower_bound, ub=upper_bound): the call binds
\* the step's x_train and y_train.
StepCall ==
    /\ spc = "loop"
    /\ iterations < MaxBudget
    /\ x_train' = hyperparameters
    /\ y_train' = errors
    /\ model' = NoModel
    /\ x_new' = << >>
    /\ events' = << >>
    /\ spc' = "fit"
    /\ UNCHANGED <<env, args, locals, err, result, runs, call, prev, sched, encoding, loop>>

\* StepFit without the fit: the step goes on with the surrogate it found.
StepFitSkip ==
    /\ spc = "fit"
    /\ spc' = "call"
    /\ UNCHANGED <<env, args, locals, err, result, runs, call, prev,
                   sched, encoding, loop, step_locals>>

\* model = GPy.models.GPRegression(x_train, y_train, kernel)
\* model.optimize_restarts(num_restarts=10, verbose=False)
StepFit ==
    /\ spc = "fit"
    /\ model' = [some |-> TRUE, x |-> x_train, y |-> y_train]
    /\ mean' = PosteriorMean(x_train, y_train)
    /\ variance' = PosteriorVariance(x_train)
    /\ events' = Append(events, Event("fit", << >>))
    /\ spc' = "call"
    /\ UNCHANGED <<maxiter, params, args, locals, err, result, runs, call, prev,
                   sched, encoding, loop, x_train, y_train, x_new>>

\* x_new, criterion_value = get_new_point(model, data=(x_train, y_train),
\* lb=lb, ub=ub, criterion=criterion, k=k): the call, with the defaults
\* multistart=10 and random_state=None.
StepGetNewPoint ==
    /\ spc = "call"
    /\ data' = [some |-> TRUE, y |-> Column(y_train)]
    /\ multistart' = DefaultMultistart
    /\ random_state' = NoRandomState
    /\ pc' = "start"
    /\ rng' = [seed |-> 0, pos |-> 0]
    /\ lb2' = << >>
    /\ ub2' = << >>
    /\ x_random' = << >>
    /\ criterion_value' = << >>
    /\ i' = 0
    /\ best_result' = NoResult
    /\ best_value' = 0
    /\ err' = ""
    /\ result' = NoResult
    /\ runs' = << >>
    /\ spc' = "acquire"
    /\ UNCHANGED <<env, lb, ub, criterion, k, call, prev, sched, encoding, loop,
                   x_train, y_train, model, x_new, events>>

\* get_new_point is over: its exception ends the step and the loop, its
\* return value is bound to x_new (and criterion_value).
StepAcquired ==
    /\ spc = "acquire"
    /\ pc = "done"
    /\ IF err # ""
       THEN /\ spc' = "raised"
            /\ UNCHANGED <<x_new, events>>
       ELSE /\ x_new' = result.x
            /\ events' = Append(events, Event("acquire", result.x))
            /\ spc' = "plot"
    /\ pc' = "none"
    /\ UNCHANGED <<env, args, rng, lb2, ub2, x_random, criterion_value, i,
                   best_result, best_value, err, result, runs, call, prev,
                   sched, encoding, loop, x_train, y_train, model>>

\* StepPlot with a plot that evaluates the objective at the training points.
StepPlotEvaluates ==
    /\ spc = "plot"
    /\ events' = IF plot
                 THEN events \o [j \in 1..Len(x_train) |-> Event("evaluate", x_train[j])]
                 ELSE events
    /\ spc' = "append"
    /\ UNCHANGED <<env, args, locals, err, result, runs, call, prev, sched, encoding, loop,
                   x_train, y_train, model, x_new>>

\* if plot: bayes_opt.plot1d(x_train, y_train, model, objective, x_new,
\* criterion_value); pyplot.show()
StepPlot ==
    /\ spc = "plot"
    /\ events' = IF plot THEN Append(events, Event("plot", x_new)) ELSE events
    /\ spc' = "append"
    /\ UNCHANGED <<env, args, locals, err, result, runs, call, prev, sched, encoding, loop,
                   x_train, y_train, model, x_new>>

\* objective(x) for a matrix x of one point per row.
ObjectiveAt(x) == [r \in 1..Len(x) |-> objective_fn[x[r]]]

\* StepAppend with the new rows stacked above the old ones.
StepAppendFirst ==
    /\ spc = "append"
    /\ x_new' = Reshape1(x_new)
    /\ x_train' = VStack(x_new', x_train)
    /\ y_train' = VStack(Reshape1(ObjectiveAt(x_new')), y_train)
    /\ events' = Append(events, Event("evaluate", x_new))
    /\ spc' = "return"
    /\ UNCHANGED <<env, args, locals, err, result, runs, call, prev, sched, encoding, loop,
                   model>>

\* StepAppend followed by a fit of the model on the rows with the new one.
StepAppendRefit ==
    /\ spc = "append"
    /\ x_new' = Reshape1(x_new)
    /\ x_train' = VStack(x_train, x_new')
    /\ y_train' = VStack(y_train, Reshape1(ObjectiveAt(x_new')))
    /\ model' = [some |-> TRUE, x |-> x_train', y |-> y_train']
    /\ mean' = PosteriorMean(x_train', y_train')
    /\ variance' = PosteriorVariance(x_train')
    /\ events' = Append(Append(events, Event("evaluate", x_new)), Event("fit", << >>))
    /\ spc' = "return"
    /\ UNCHANGED <<maxiter, params, args, locals, err, result, runs, call, prev,
                   sched, encoding, loop>>

\* x_new = x_new.reshape(1, -1)
\* x_train = np.vstack([x_train, x_new])
\* y_train = np.vstack([y_train, np.asarray(objective(x_new)).reshape(1, -1)])
StepAppend ==
    /\ spc = "append"
    /\ x_new' = Reshape1(x_new)
    /\ x_train' = VStack(x_train, x_new')
    /\ y_train' = VStack(y_train, Reshape1(ObjectiveAt(x_new')))
    /\ events' = Append(events, Event("evaluate", x_new))
    /\ spc' = "return"
    /\ UNCHANGED <<env, args, locals, err, result, runs, call, prev, sched, encoding, loop,
                   model>>

\* StepReturn with the newest error appended to the history, not the least.
StepReturnLast ==
    /\ spc = "return"
    /\ hyperparameters' = x_train
    /\ errors' = y_train
    /\ gp_model' = model
    /\ error_history' = Append(error_history, -errors'[Len(errors')][1])
    /\ iterations' = iterations + 1
    /\ spc' = "loop"
    /\ UNCHANGED <<env, args, locals, err, result, runs, call, prev, sched, encoding,
                   objective_fn, plot, n_init_points, step_locals>>

\* return x_train, y_train, model, bound by the loop to hyperparameters,
\* errors and gp_model; then error_history.append(-errors.min()).
StepReturn ==
    /\ spc = "return"
    /\ hyperparameters' = x_train
    /\ errors' = y_train
    /\ gp_model' = model
    /\ error_history' = Append(error_history, -MinOf(Column(errors')))
    /\ iterations' = iterations + 1
    /\ spc' = "loop"
    /\ UNCHANGED <<env, args, locals, err, result, runs, call, prev, sched, encoding,
                   objective_fn, plot, n_init_points, step_locals>>

NextLoop ==
    \/ StepCall \/ StepFit \/ StepGetNewPoint
    \/ Prepare \/ Draw \/ Batch \/ InitBest \/ RunStart \/ Return
    \/ StepAcquired \/ StepPlot \/ StepAppend \/ StepReturn

SpecLoop == InitLoop /\ [][NextLoop]_vars

\* ----------------------------------------------- as_matrix and to_string
\* Largest number of words of a caption.
MaxWords == 2
\* Words of the sentences: "a" and "b" are frequent enough to be in the
\* vocabulary, "z" is not, and "#END#" is a word that reads like the end token.
Words == {"a", "b", "z", "#END#"}
\* vocab = ['#UNK#', '#START#', '#END#'] + [the frequent words]
VocabWords == <<"#UNK#", "#START#", "#END#", "a", "b">>
\* vocab = list(set(vocab)): the order is that of the set's iteration; the
\* orders explored are the rotations of the list.
Rotate(l, n) == [j \in 1..Len(l) |-> l[((j - 1 + n) % Len(l)) + 1]]
VocabOrders == {Rotate(VocabWords, n) : n \in 0..(Len(VocabWords) - 1)}

\* captions[img_i][caption_i] = ["#START#"] + sentence.split(' ') + ["#END#"]
Caption(words) == <<"#START#">> \o words \o <<"#END#">>
WordLists == UNION {[1..n -> Words] : n \in 0..MaxWords}
\* The sequences as_matrix is given: captions, and the empty sequence.
TokenSequences == {Caption(w) : w \in WordLists} \cup {<< >>}
\* The lists of sequences that are explored: of one and of two sequences.
Batches == UNION {[1..n -> TokenSequences] : n \in 1..2}
\* The max_len arguments that are explored.
MaxLens == {NoMaxLen} \cup {[some |-> TRUE, value |-> n] : n \in 0..(MaxWords + 2)}

\* PAD_ix = -1
PAD_ix == -1
\* vocab.index(word), counted from 0
IndexOf(word) == (CHOOSE j \in 1..Len(vocab) : vocab[j] = word) - 1
UNK_ix == IndexOf("#UNK#")
START_ix == IndexOf("#START#")
END_ix == IndexOf("#END#")

\* word_to_index.get(word, UNK_ix)
WordToIndex(word) ==
    IF \E j \in 1..Len(vocab) : vocab[j] = word THEN IndexOf(word) ELSE UNK_ix

\* vocab[i] for a list index i counted from 0; a negative i counts from the end.
VocabAt(ix) == IF ix < 0 THEN vocab[Len(vocab) + ix + 1] ELSE vocab[ix + 1]

\* max(map(len, sequences))
RECURSIVE MaxLength(_)
MaxLength(seqs) ==
    IF Len(seqs) = 1 THEN Len(seqs[1])
    ELSE LET m == MaxLength(Tail(seqs)) IN IF Len(seqs[1]) > m THEN Len(seqs[1]) ELSE m

\* seq[:n]
Prefix(seq, n) == SubSeq(seq, 1, IF n < Len(seq) THEN n ELSE Len(seq))

\* The row full of zeros, for a matrix built without + PAD_ix.
PaddedRowZero(row_ix, columns) ==
    [c \in 1..columns |-> IF c <= Len(row_ix) THEN row_ix[c] ELSE 0]

\* A row of np.zeros(...) + PAD_ix after matrix[i, :len(row_ix)] = row_ix
PaddedRow(row_ix, columns) ==
    [c \in 1..columns |-> IF c <= Len(row_ix) THEN row_ix[c] ELSE PAD_ix]

\* max_len or max(map(len, sequences)): None and 0 are both false.
Columns(seqs, given) ==
    IF given.some /\ given.value # 0 THEN given.value ELSE MaxLength(seqs)

\* as_matrix(sequences, max_len)
as_matrix(seqs, given) ==
    [r \in 1..Len(seqs) |->
        LET seq == Prefix(seqs[r], Columns(seqs, given))
            row_ix == [c \in 1..Len(seq) |-> WordToIndex(seq[c])]
        IN  PaddedRow(row_ix, Columns(seqs, given))]

\* " ".join(words), as the pieces it puts in a row: the words, a space
\* between each two.
RECURSIVE Join(_)
Join(words) ==
    IF Len(words) = 0 THEN << >>
    ELSE IF Len(words) = 1 THEN <<words[1]>>
    ELSE <<words[1], " ">> \o Join(Tail(words))

\* tokens_ix[:tokens_ix.index(END_ix)] left out: the list is kept whole.
CutAtEndNever(tokens_ix) == tokens_ix

\* if END_ix in tokens_ix: tokens_ix = tokens_ix[:tokens_ix.index(END_ix)]
CutAtEnd(tokens_ix) ==
    LET ends == {j \in 1..Len(tokens_ix) : tokens_ix[j] = END_ix}
    IN  IF ends = {}
        THEN tokens_ix
        ELSE SubSeq(tokens_ix, 1, (CHOOSE j \in ends : \A h \in ends : j <= h) - 1)

\* to_string(tokens_ix) for one row
to_string(tokens_ix) ==
    LET rest == IF Len(tokens_ix) = 0 THEN << >> ELSE Tail(tokens_ix)
        kept == CutAtEnd(rest)
    IN  Join([j \in 1..Len(kept) |-> VocabAt(kept[j])])

\* Neither get_new_point nor the loop is running.
NoCall ==
    /\ mean = PosteriorMean(<< >>, << >>)
    /\ variance = PosteriorVariance(<< >>)
    /\ maxiter = 0
    /\ params = Unbound
    /\ lb = << >>
    /\ ub = << >>
    /\ data = NoData
    /\ multistart = DefaultMultistart
    /\ criterion = "ei"
    /\ k = 1
    /\ random_state = NoRandomState
    /\ pc = "none"
    /\ rng = [seed |-> 0, pos |-> 0]
    /\ lb2 = << >>
    /\ ub2 = << >>
    /\ x_random = << >>
    /\ criterion_value = << >>
    /\ i = 0
    /\ best_result = NoResult
    /\ best_value = 0
    /\ err = ""
    /\ result = NoResult
    /\ runs = << >>
    /\ call = 1
    /\ prev = [result |-> NoResult, err |-> "", multistart |-> 0]
    /\ running = {}
    /\ order = << >>

\* A vocabulary, a list of sequences and a max_len, before as_matrix is called.
InitEncoding ==
    /\ vocab \in VocabOrders
    /\ sequences \in Batches
    /\ max_len \in MaxLens
    /\ matrix = << >>
    /\ row = 0
    /\ text = << >>
    /\ tpc = "start"
    /\ NoCall
    /\ NoLoop

\* matrix = as_matrix(sequences, max_len)
AsMatrix ==
    /\ tpc = "start"
    /\ matrix' = as_matrix(sequences, max_len)
    /\ tpc' = "encoded"
    /\ UNCHANGED <<env, args, locals, err, result, runs, call, prev, sched, loop,
                   step, vocab, sequences, max_len, row, text>>

\* to_string(matrix[r]) for a row r of the matrix
DecodeRow ==
    /\ tpc = "encoded"
    /\ \E r \in 1..Len(matrix) :
        /\ row' = r
        /\ text' = to_string(matrix[r])
    /\ tpc' = "decoded"
    /\ UNCHANGED <<env, args, locals, err, result, runs, call, prev, sched, loop,
                   step, vocab, sequences, max_len, matrix>>

NextEncoding == AsMatrix \/ DecodeRow

SpecEncoding == InitEncoding /\ [][NextEncoding]_vars

\* ------------------------------------------------------------- the claims
\* The error kinds of the specification, as the Python exceptions that end
\* the call in their place.
UnsupportedCriterion == "NotImplementedError" \* raise NotImplementedError(...)
AllStartsFailed == "AttributeError"           \* best_result.x with best_result = None
\* EmptyDataset: data[1].min() of an empty column, or data[1] of no dataset.
EmptyDataset == IF data.some THEN "ValueError" ELSE "TypeError"

Returned == pc = "done" /\ result.some
ValidBounds == \A d \in 1..Dim : lb[d] <= ub[d]
DegenerateBounds == \E d \in 1..Dim : lb[d] > ub[d]
\* The runs of the call that produced an (x, fun).
OkRuns == {j \in 1..Len(runs) : runs[j].ok}
\* The loop over the starts was entered and left.
LoopFinished == pc = "done" /\ err \notin {"NotImplementedError", "ValueError", "TypeError", "NameError"}

\* C1: whenever a call with valid bounds returns, the returned x* lies between
\* lower and upper in every dimension.
C1_ResultInBounds ==
    (Returned /\ ValidBounds) =>
        \A d \in 1..Dim : lb[d] <= result.x[d] /\ result.x[d] <= ub[d]

\* A call returned a point the optimiser moved to, inside a box that is
\* narrower than the grid in one dimension and not in the other.
C1_Witness ==
    /\ Returned
    /\ ValidBounds
    /\ \E d \in 1..Dim : lb[d] = ub[d]
    /\ \E d \in 1..Dim : lb[d] < ub[d]
    /\ \E j \in OkRuns : runs[j].x = result.x /\ runs[j].start # result.x

\* C2: when the call returns after the optimiser was run from every start, the
\* result is the (x_i, f_i) of the run with the smallest f_i, and of the one
\* with the lowest index among the runs of that value.
C2_FirstMinimum ==
    Returned =>
        /\ Len(runs) = multistart
        /\ \E j \in OkRuns :
            /\ result.x = runs[j].x
            /\ result.fun = runs[j].fun
            /\ \A l \in OkRuns : runs[j].fun <= runs[l].fun
            /\ \A l \in OkRuns : l < j => runs[j].fun < runs[l].fun

\* Two runs ended at different points of equal, smallest value, and the call
\* returned the first of them.
C2_Witness ==
    /\ Returned
    /\ Len(runs) >= 2
    /\ runs[1].ok /\ runs[2].ok
    /\ runs[1].fun = runs[2].fun
    /\ runs[1].x # runs[2].x
    /\ result.x = runs[1].x

\* C3: a second call with a RandomState of the same seed and the same other
\* arguments ends as the first did: the same (x*, value*), or the same error.
C3_Deterministic ==
    (call = 2 /\ pc = "done" /\ random_state.some /\ multistart = prev.multistart) =>
        result = prev.result /\ err = prev.err

\* A seeded call was repeated with the same arguments, and both returned a
\* point found from more than one start.
C3_Witness ==
    /\ call = 2 /\ Returned
    /\ random_state.some
    /\ multistart = prev.multistart
    /\ multistart >= 2
    /\ x_random[1] # x_random[2]

\* C4: with the same seed and otherwise the same arguments, a call with more
\* starts returns whenever the call with fewer starts did, and its value* is
\* not larger.
C4_MoreStartsNotWorse ==
    (call = 2 /\ pc = "done" /\ random_state.some
        /\ prev.multistart < multistart /\ prev.result.some) =>
        result.some /\ result.fun <= prev.result.fun

\* The call with more starts returned a strictly smaller value.
C4_Witness ==
    /\ call = 2 /\ Returned
    /\ random_state.some
    /\ prev.multistart < multistart
    /\ prev.result.some
    /\ result.fun < prev.result.fun

C6_UnsupportedCriterion ==
    (pc = "done" /\ criterion \notin {"ei", "lcb"}) =>
        err = UnsupportedCriterion /\ ~result.some /\ runs = << >>

C6_Witness ==
    pc = "done" /\ criterion = "bogus" /\ err = UnsupportedCriterion

\* C7: a call with criterion 'ei' and no observation to take y_min from ends
\* with the error of computing data[1].min(), and returns nothing.
C7_EmptyDataset ==
    (pc = "done" /\ criterion = "ei" /\ Len(data.y) = 0) =>
        err = EmptyDataset /\ ~result.some /\ runs = << >>

C7_Witness ==
    /\ pc = "done" /\ criterion = "ei"
    /\ data.some /\ Len(data.y) = 0
    /\ err = "ValueError"

\* C8, as claimed: with lower[i] > upper[i] for some i no start point is ever
\* drawn and no optimiser run is made, and the call ends with an error of the
\* bounds.
C8_FailsBeforeDraw ==
    DegenerateBounds =>
        /\ x_random = << >>
        /\ runs = << >>
        /\ pc = "done" => err = "DegenerateBounds"

\* C8, amended: with lower[i] > upper[i] for some i the call makes no check of
\* the bounds and raises nothing before the draw.  Its multistart points are
\* drawn and the batched criterion is evaluated at them; the only error that
\* ends the call ahead of the optimiser runs is the one of the criterion
\* dispatch, never an error of the bounds.
C8_NoCheckBeforeDraw ==
    DegenerateBounds =>
        /\ pc \in {"start", "draw", "batch"} => err = ""
        /\ pc \notin {"start", "draw"} => Len(x_random) = multistart
        /\ (pc = "done" /\ runs = << >>) => (err # "" /\ err = ObjectiveError)
        /\ err # "DegenerateBounds"

\* Degenerate bounds and a usable criterion: the points were drawn, the
\* batched criterion was evaluated, and no error has been raised.
C8_Witness ==
    /\ DegenerateBounds
    /\ pc = "init_best"
    /\ Len(x_random) = 2
    /\ Len(criterion_value) = 2
    /\ err = ""

\* C9: when the optimiser fails for some starts and succeeds for others the
\* call returns, and returns the smallest value among the successful runs
\* with the point of such a run.
C9_FailedStartsExcluded ==
    (LoopFinished /\ OkRuns # {} /\ OkRuns # 1..Len(runs)) =>
        /\ err = ""
        /\ result.some
        /\ \E j \in OkRuns :
            /\ result.x = runs[j].x
            /\ result.fun = runs[j].fun
            /\ \A l \in OkRuns : runs[j].fun <= runs[l].fun

\* The first run failed, the second succeeded and was returned.
C9_Witness ==
    /\ Returned
    /\ Len(runs) = 2
    /\ ~runs[1].ok
    /\ runs[2].ok
    /\ result.x = runs[2].x

\* C10: when the optimiser fails for every start, so that best_result is
\* still None at the return, the call ends with the error of reading
\* best_result.x and returns nothing.
C10_AllStartsFailed ==
    (LoopFinished /\ OkRuns = {}) =>
        err = AllStartsFailed /\ ~result.some /\ ~best_result.some

\* Valid bounds, and both runs of the call ran out of iterations.
C10_Witness ==
    /\ LoopFinished
    /\ ValidBounds
    /\ Len(runs) = 2
    /\ OkRuns = {}
    /\ err = AllStartsFailed

\* C14: the returned value* is the minimised criterion at the returned x*:
\* minus log EI of the prediction at x* for 'ei', and for 'lcb' the lower
\* confidence bound at x* as it is, with the coefficient objective passes.
C14_ValueIsCriterionAtResult ==
    Returned =>
        result.fun =
            (IF criterion = "ei"
             THEN -LogEI(mean[result.x], Sqrt(variance[result.x]), MinOf(data.y))
             ELSE Lcb(mean[result.x], Sqrt(variance[result.x]), params.value))

\* An 'ei' call returned a point the optimiser moved to, with a value that
\* differs from its negation.
C14_Witness ==
    /\ Returned
    /\ criterion = "ei"
    /\ result.fun # 0
    /\ \E j \in OkRuns : runs[j].x = result.x /\ runs[j].start # result.x

\* C15, as claimed: with 'lcb' the objective evaluates, and its value at every
\* start point is mean - k * std for the k the caller passed.
C15_LcbUsesK ==
    criterion = "lcb" =>
        /\ err # "NameError"
        /\ \A r \in 1..Len(criterion_value) :
            criterion_value[r] =
                Lcb(mean[x_random[r]], Sqrt(variance[x_random[r]]), k)

\* The starts whose run reached the least value of all runs.
BestStarts ==
    {j \in OkRuns : \A h \in OkRuns : runs[j].fun <= runs[h].fun}

\* C17: in whatever order and interleaving the runs of a call begin and end,
\* the call ends as it does when they are run in the order of the start
\* points: with the same value*, with the same x* when a single run reached
\* the least value, and without a result exactly when the ordered loop has none.
C17_OrderIndependent ==
    LoopFinished =>
        IF InOrder.some
        THEN /\ err = ""
             /\ result.fun = InOrder.fun
             /\ Cardinality(BestStarts) = 1 => result.x = InOrder.x
        ELSE err = AllStartsFailed

\* A call ended whose runs ended in the reverse order of the start points
\* while both were running, and the least value came from one run only.
C17_Witness ==
    /\ Returned
    /\ order = <<2, 1>>
    /\ Cardinality(OkRuns) = 2
    /\ Cardinality(BestStarts) = 1
    /\ runs[1].x # runs[2].x

\* The positions of the running step's record where op was done.
EventsOf(op) == {j \in 1..Len(events) : events[j].op = op}
\* The step has the point get_new_point returned.
Acquired == spc \in {"plot", "append", "return"}

\* C11: while get_new_point runs inside a step, the surrogate it reads is the
\* one fitted on the (X, y) the step was called with, fitted in this step
\* before the call; and the step fits nothing once the point is computed.
C11_FitBeforeAcquire ==
    /\ spc = "acquire" =>
        /\ events = <<Event("fit", << >>)>>
        /\ model = [some |-> TRUE, x |-> hyperparameters, y |-> errors]
        /\ mean = PosteriorMean(hyperparameters, errors)
        /\ variance = PosteriorVariance(hyperparameters)
    /\ Acquired =>
        /\ EventsOf("fit") = {1}
        /\ events[2].op = "acquire"

\* The second step of a loop has its point, from a surrogate that differs
\* from the one the first step fitted.
C11_Witness ==
    /\ Acquired
    /\ iterations = 1
    /\ gp_model.some
    /\ mean # PosteriorMean(gp_model.x, gp_model.y)

\* C12: what a step returns is the dataset it was called with and one more
\* row at the end: x_new below X, objective(x_new) below y, the earlier rows
\* as they were. Over the loop the row count is the initial one plus the
\* iterations made, and the initial rows stay in place.
C12_AppendOnly ==
    /\ spc = "return" =>
        /\ x_train = Append(hyperparameters, result.x)
        /\ y_train = Append(errors, <<objective_fn[result.x]>>)
    /\ Len(hyperparameters) = n_init_points + iterations
    /\ Len(errors) = n_init_points + iterations
    /\ Rows(hyperparameters, n_init_points) = InitialParameters(n_init_points, lb, ub)

\* A second step is about to return a row that differs from the row before it.
C12_Witness ==
    /\ spc = "return"
    /\ iterations = 1
    /\ x_train[Len(x_train)] # x_train[Len(x_train) - 1]
    /\ y_train[Len(y_train)] # y_train[Len(y_train) - 1]

C18_ModelOnInput ==
    /\ spc = "return" =>
        /\ model.some
        /\ model.x = Rows(x_train, Len(x_train) - 1)
        /\ model.y = Rows(y_train, Len(y_train) - 1)
    /\ (spc = "loop" /\ iterations > 0) =>
        /\ gp_model.some
        /\ gp_model.x = Rows(hyperparameters, Len(hyperparameters) - 1)
        /\ gp_model.y = Rows(errors, Len(errors) - 1)

\* The loop holds the model of its second step.
C18_Witness ==
    /\ spc = "loop"
    /\ iterations = 2
    /\ Len(gp_model.x) = n_init_points + 1

\* max(-errors[:j])
BestOfFirst(j) == -MinOf(Column(Rows(errors, j)))

\* C19: error_history has one entry per initial row and one per completed
\* iteration; entry j is the largest -error among the first j rows, so the
\* entries never decrease.
C19_ErrorHistory ==
    /\ Len(error_history) = n_init_points + iterations
    /\ \A j \in 1..Len(error_history) : error_history[j] = BestOfFirst(j)
    /\ \A j \in 2..Len(error_history) : error_history[j - 1] <= error_history[j]

\* After two iterations the history has risen, and the last row is not the
\* best one.
C19_Witness ==
    /\ spc = "loop"
    /\ iterations = 2
    /\ error_history[1] < error_history[Len(error_history)]
    /\ -errors[Len(errors)][1] < error_history[Len(error_history)]

\* The words of a caption: what lies between its first and its last token.
WordsOf(seq) == SubSeq(seq, 2, Len(seq) - 1)
\* The index as_matrix gives a token: its place in vocab counted from 0, that
\* of "#UNK#" for a token not in vocab.
Encoded(token) ==
    IF \E j \in 1..Len(vocab) : vocab[j] = token
    THEN (CHOOSE j \in 1..Len(vocab) : vocab[j] = token) - 1
    ELSE (CHOOSE j \in 1..Len(vocab) : vocab[j] = "#UNK#") - 1
\* The length of the longest of the sequences.
Longest == CHOOSE n \in {Len(sequences[r]) : r \in 1..Len(sequences)} :
               \A r \in 1..Len(sequences) : Len(sequences[r]) <= n
\* The matrix has one row per sequence and n columns; row r holds the indices
\* of the first tokens of sequence r and -1 in every place after them.
MatrixOf(n) ==
    /\ Len(matrix) = Len(sequences)
    /\ \A r \in 1..Len(matrix) :
        /\ Len(matrix[r]) = n
        /\ \A c \in 1..n :
            matrix[r][c] = IF c <= Len(sequences[r])
                           THEN Encoded(sequences[r][c])
                           ELSE -1

\* C16, as claimed: the matrix has max_len columns whenever max_len is given,
\* and as many as the longest sequence has tokens when it is not.
C16_MaxLenColumns ==
    tpc # "start" => MatrixOf(IF max_len.some THEN max_len.value ELSE Longest)

\* C16, amended: the matrix has max_len columns when max_len is given and is
\* not 0, and as many as the longest sequence has tokens when max_len is not
\* given or is 0; row r holds the vocabulary indices of the first tokens of
\* sequence r that fit (that of #UNK# for a word not in the vocabulary), and
\* -1 in every place after them.
C16_PositiveMaxLenColumns ==
    tpc # "start" =>
        MatrixOf(IF max_len.some /\ max_len.value > 0 THEN max_len.value ELSE Longest)

\* Two sequences were encoded under a max_len that cuts one of them, with an
\* unknown word left in, and leaves room after the other.
C16_Witness ==
    /\ tpc = "encoded"
    /\ max_len.some
    /\ Len(sequences) = 2
    /\ Len(sequences[1]) > max_len.value
    /\ Len(sequences[2]) < max_len.value
    /\ sequences[1][2] = "z"
    /\ sequences[2] # << >>

\* C20: a row of as_matrix that holds a whole caption, one whose words are all
\* in the vocabulary and none of them "#END#", is turned by to_string into the
\* words of the caption with one space between each two: in any list of
\* sequences, under any order of the vocabulary, followed by padding or not.
C20_RoundTrip ==
    (/\ tpc = "decoded"
     /\ sequences[row] # << >>
     /\ Len(sequences[row]) <= Len(matrix[row])
     /\ \A j \in 1..Len(WordsOf(sequences[row])) :
            WordsOf(sequences[row])[j] \in {"a", "b"})
    => /\ Len(text) = (IF WordsOf(sequences[row]) = << >>
                       THEN 0 ELSE 2 * Len(WordsOf(sequences[row])) - 1)
       /\ \A j \in 1..Len(text) :
            text[j] = IF j % 2 = 1 THEN WordsOf(sequences[row])[(j + 1) \div 2] ELSE " "

\* A caption of two different known words was decoded from a row padded
\* behind it, in a vocabulary whose last word is not "#END#".
C20_Witness ==
    /\ tpc = "decoded"
    /\ max_len = NoMaxLen
    /\ Len(sequences) = 2
    /\ row = 1
    /\ sequences[1] = Caption(<<"a">>)
    /\ sequences[2] = Caption(<<"b", "a">>)
    /\ vocab[Len(vocab)] = "b"

====
